---- MODULE Spec2Model ----
(***************************************************************************)
(* Scheduling and adaptive-state engine of the Botsy bot (src/src/bot.py): *)
(* the per-bot job registry (schedule.Scheduler), the enable flags of the  *)
(* seven behaviors, the tick-loop threads that start() spawns, the console *)
(* commands that mutate them, the post job's retry loop and the comment    *)
(* job's watermark.                                                        *)
(*                                                                         *)
(* Time is counted in minutes since midnight of day 0.  A job of the      *)
(* registry is a record [tag, next_run]; the registry is the list         *)
(* scheduler.jobs in insertion order.                                      *)
(***************************************************************************)
EXTENDS Integers, Sequences, FiniteSets, TLC

----------------------------------------------------------------------------
(* Bounds of the model *)

MaxCmds == 2        \* bot-console/HTTP commands issued in one behaviour
MaxThreads == 2     \* tick-loop threads that can be alive at once
MaxClock == 720     \* the clock stops advancing past this minute (12:00)
MaxId == 2          \* tweet ids returned by the platform are 1..MaxId
MaxForbidden == 4   \* PostSpec: consecutive_forbidden_count is followed up to here
MaxFailures == 3    \* CommentSpec: failed publishes in a row counted per handle
MaxCount == 2       \* RunSpec: 'set <behavior> count' is given -1..MaxCount
MaxTimeLen == 5     \* TimeSpec: configured time entries have up to this many characters
MaxAppends == 2     \* StorySpec: story tweets each bot posts in one behaviour
MaxMoodOps == 4     \* MoodSpec, ProfileSpec: ingest, decay and 'set mood' calls in one behaviour

----------------------------------------------------------------------------
(* Program constants *)

MAX_AUTH_RETRIES == 3

\* seconds post_tweet of botsy/src/bot.py sleeps when the rate limit is hit
RATE_LIMIT_WAIT == 60

\* seconds daily_tweet_job sleeps after a failed post_tweet: time.sleep(2)
RETRY_SLEEP == 2

Behaviors == {"post", "comment", "reply", "cross", "trending", "dm", "story"}

Randomized == {"post", "comment", "reply"}

Tag(b) ==
  CASE b = "post"     -> "randomized_tweet"
    [] b = "comment"  -> "randomized_comment"
    [] b = "reply"    -> "randomized_reply"
    [] b = "cross"    -> "cross_engagement"
    [] b = "trending" -> "trending_engagement"
    [] b = "dm"       -> "dm_job"
    [] b = "story"    -> "story_job"

Tags == {Tag(b) : b \in Behaviors}

BehaviorOf(tag) == CHOOSE b \in Behaviors : Tag(b) = tag

\* flags as __init__ leaves them
InitialFlags ==
  [b \in Behaviors |-> b \in Randomized]

\* flags as start() forces them
StartFlags ==
  [b \in Behaviors |-> b \in Randomized]

----------------------------------------------------------------------------
(* Times of day: a time string is the sequence of its characters *)

Digits == {"0", "1", "2", "3", "4", "5", "6", "7", "8", "9"}

DigitVal(c) ==
  CASE c = "0" -> 0 [] c = "1" -> 1 [] c = "2" -> 2 [] c = "3" -> 3
    [] c = "4" -> 4 [] c = "5" -> 5 [] c = "6" -> 6 [] c = "7" -> 7
    [] c = "8" -> 8 [] c = "9" -> 9

\* re.match(r"^\d{1,2}:\d{2}$", s)
MatchesTimePattern(s) ==
  \/ /\ Len(s) = 5
     /\ s[1] \in Digits /\ s[2] \in Digits /\ s[3] = ":"
     /\ s[4] \in Digits /\ s[5] \in Digits
  \/ /\ Len(s) = 4
     /\ s[1] \in Digits /\ s[2] = ":"
     /\ s[3] \in Digits /\ s[4] \in Digits

validate_time(time_str, default) ==
  IF MatchesTimePattern(time_str) THEN time_str ELSE default

\* minute of the day that Job.at("HH:MM") stores
MinuteOfDay(s) ==
  (DigitVal(s[1]) * 10 + DigitVal(s[2])) * 60 + DigitVal(s[4]) * 10 + DigitVal(s[5])

\* config["schedule"] of the bot under check: tweet_times is left to its
\* .get() default, comment_times and reply_times name one time each
ConfiguredTimes(b) ==
  CASE b = "post"    -> << <<"1","2",":","0","0">>, <<"1","8",":","0","0">> >>
    [] b = "comment" -> << <<"1","2",":","0","0">> >>
    [] b = "reply"   -> << <<"1","4",":","3","0">> >>

DefaultTime(b) ==
  CASE b = "post"    -> <<"1","2",":","0","0">>
    [] b = "comment" -> <<"1","3",":","0","0">>
    [] b = "reply"   -> <<"1","4",":","3","0">>

FixedTime(b) ==
  CASE b = "trending" -> <<"1","1",":","0","0">>
    [] b = "story"    -> <<"1","6",":","0","0">>

\* every().day.at(t): today at t if t is still ahead, else tomorrow at t
NextDailyRun(clock, t) ==
  LET midnight == (clock \div 1440) * 1440
      m == MinuteOfDay(t)
  IN IF m > clock % 1440 THEN midnight + m ELSE midnight + 1440 + m

\* every(n).hours / every(n).minutes: one period from now
NextIntervalRun(clock, b) ==
  IF b = "cross" THEN clock + 60 ELSE clock + 30

----------------------------------------------------------------------------
(* The registry: schedule.Scheduler *)

Job(tag, next_run) == [tag |-> tag, next_run |-> next_run]

\* scheduler.clear(tag): drop every job carrying the tag
ClearTag(js, tag) == SelectSeq(js, LAMBDA j : j.tag # tag)

\* scheduler.clear(): drop every job
ClearAll(js) == << >>

JobsTagged(js, tag) == SelectSeq(js, LAMBDA j : j.tag = tag)

CountTag(js, tag) == Len(JobsTagged(js, tag))

\* sorted(): stable insertion by next_run (Job.__lt__)
RECURSIVE InsertSorted(_, _)
InsertSorted(sorted, j) ==
  IF sorted = << >> THEN << j >>
  ELSE IF j.next_run < Head(sorted).next_run
       THEN << j >> \o sorted
       ELSE << Head(sorted) >> \o InsertSorted(Tail(sorted), j)

RECURSIVE SortJobs(_)
SortJobs(js) ==
  IF js = << >> THEN << >>
  ELSE InsertSorted(SortJobs(SubSeq(js, 1, Len(js) - 1)), js[Len(js)])

\* job.should_run
ShouldRun(j, clock) == clock >= j.next_run

\* the list run_pending() iterates over: the due jobs, sorted, taken once
RunnableJobs(js, clock) ==
  SortJobs(SelectSeq(js, LAMBDA j : ShouldRun(j, clock)))

\* the times rng.choice(...) can return, after validate_time
RandomTimes(b) ==
  {validate_time(ConfiguredTimes(b)[i], DefaultTime(b)) :
     i \in 1..Len(ConfiguredTimes(b))}

\* the next_run values one scheduling call for behavior b can produce
NextRuns(b, clock) ==
  IF b \in Randomized
  THEN {NextDailyRun(clock, t) : t \in RandomTimes(b)}
  ELSE IF b \in {"trending", "story"}
       THEN {NextDailyRun(clock, FixedTime(b))}
       ELSE {NextIntervalRun(clock, b)}

\* scheduler.every()...do(<b>_job_wrapper).tag(Tag(b)): the registries that
\* adding one job for behavior b can produce
AppendJob(js, b, clock) ==
  {Append(js, Job(Tag(b), t)) : t \in NextRuns(b, clock)}

\* schedule_next_<b>_job for post/comment/reply, the inline
\* scheduler.every(...).do(...).tag(...) for the others: returns the
\* possible registries afterwards
ScheduleNext(js, flags, b, clock) ==
  IF ~flags[b] THEN {js}
  ELSE AppendJob(js, b, clock)

\* randomize_schedule: the seven scheduling calls in source order
RandomizeOrder == <<"post", "comment", "reply", "cross", "trending", "dm", "story">>

RECURSIVE RandomizeFrom(_, _, _, _)
RandomizeFrom(js, flags, i, clock) ==
  IF i > Len(RandomizeOrder) THEN {js}
  ELSE UNION {RandomizeFrom(js2, flags, i + 1, clock) :
                js2 \in ScheduleNext(js, flags, RandomizeOrder[i], clock)}

randomize_schedule(js, flags, clock) == RandomizeFrom(js, flags, 1, clock)

re_randomize_schedule(js, flags, clock) ==
  randomize_schedule(ClearAll(js), flags, clock)

----------------------------------------------------------------------------
(* The post job: post_tweet and daily_tweet_job *)

\* what one call of post_tweet can meet: no text generated, or the outcome
\* of client.create_tweet
PostOutcomes == {"nogen", "ok", "forbidden", "generic", "ratelimit", "unauthorized"}

\* the handler counting the rejections without ever clearing the flag
handle_forbidden_error_CountOnly(st) ==
  [st EXCEPT !.count = st.count + 1]

\* handle_forbidden_error
handle_forbidden_error(st) ==
  LET c == st.count + 1
  IN [st EXCEPT !.count = c,
                !.enabled = IF c >= 3 THEN FALSE ELSE st.enabled]

\* the call meets outcome o: the record of the run notes it
Meet(st, o) ==
  [st EXCEPT !.kinds = st.kinds \cup {o},
             !.trail = Append(st.trail, o),
             !.waits = Append(st.waits, 0)]

\* time.sleep(secs) after the latest call of post_tweet
Sleep(st, secs) ==
  [st EXCEPT !.waits[Len(st.waits)] = @ + secs]

\* post_tweet without the "if not tweet" return: the empty text is handed
\* to create_tweet
post_tweet_NoTextCheck(st, o) ==
  LET s1 == Meet(st, o)
      s2 == [s1 EXCEPT !.attempts = s1.attempts + 1]
  IN IF o = "ok" THEN [s2 EXCEPT !.count = 0, !.ret = TRUE]
     ELSE IF o = "forbidden"
          THEN [handle_forbidden_error(s2) EXCEPT !.ret = FALSE]
          ELSE [s2 EXCEPT !.ret = FALSE]

\* post_tweet of src/src/bot.py; st.ret is the returned boolean
post_tweet(st, o) ==
  LET s1 == Meet(st, o)
  IN IF o = "nogen" THEN [s1 EXCEPT !.ret = FALSE]
     ELSE LET s2 == [s1 EXCEPT !.attempts = s1.attempts + 1]
          IN IF o = "ok" THEN [s2 EXCEPT !.count = 0, !.ret = TRUE]
             ELSE IF o = "forbidden"
                  THEN [handle_forbidden_error(s2) EXCEPT !.ret = FALSE]
                  ELSE [s2 EXCEPT !.ret = FALSE]

\* post_tweet of Botsy-GUI/botsy/src/bot.py: no forbidden handler
\* if os.path.exists(self.token_file): os.remove(self.token_file)
RemoveTokenFile(st) ==
  IF st.token THEN [st EXCEPT !.token = FALSE, !.removals = st.removals + 1]
  ELSE st

\* post_tweet of Botsy-GUI/botsy/src/bot.py: no forbidden handler
post_tweet_gui(st, o) ==
  LET s1 == Meet(st, o)
  IN IF o = "nogen" THEN [s1 EXCEPT !.ret = FALSE]
     ELSE LET s2 == [s1 EXCEPT !.attempts = s1.attempts + 1]
          IN IF o = "ok" THEN [s2 EXCEPT !.ret = TRUE]
             ELSE IF o = "unauthorized"
                  THEN [RemoveTokenFile(s2) EXCEPT !.ret = FALSE]
                  ELSE [s2 EXCEPT !.ret = FALSE]

\* post_tweet of botsy/src/bot.py: as the Botsy-GUI version, and it sleeps
\* RATE_LIMIT_WAIT seconds before it returns from a rate limit
post_tweet_botsy(st, o) ==
  LET s1 == Meet(st, o)
  IN IF o = "nogen" THEN [s1 EXCEPT !.ret = FALSE]
     ELSE LET s2 == [s1 EXCEPT !.attempts = s1.attempts + 1]
          IN IF o = "ok" THEN [s2 EXCEPT !.ret = TRUE]
             ELSE IF o = "unauthorized"
                  THEN [RemoveTokenFile(s2) EXCEPT !.ret = FALSE]
                  ELSE IF o = "ratelimit"
                       THEN [Sleep(s2, RATE_LIMIT_WAIT) EXCEPT !.ret = FALSE]
                       ELSE [s2 EXCEPT !.ret = FALSE]

\* the job starts: consecutive_forbidden_count, auto_post_enabled, and the
\* token file in place (the bot has authenticated)
PostStart(count, flag) ==
  [count |-> count, enabled |-> flag, attempts |-> 0, kinds |-> {},
   trail |-> << >>, waits |-> << >>, token |-> TRUE, removals |-> 0,
   ret |-> FALSE, success |-> FALSE, reported |-> FALSE]

\* daily_tweet_job of src/src/bot.py: the set of states it can end in
RECURSIVE TweetJobFrom(_, _)
TweetJobFrom(st, i) ==
  IF i > MAX_AUTH_RETRIES THEN {[st EXCEPT !.reported = TRUE]}
  ELSE UNION {LET r == post_tweet(st, o)
              IN IF r.ret THEN {[r EXCEPT !.success = TRUE]}
                 ELSE TweetJobFrom(Sleep(r, RETRY_SLEEP), i + 1) :
                o \in PostOutcomes}

daily_tweet_job(count, flag) == TweetJobFrom(PostStart(count, flag), 1)

\* daily_tweet_job of Botsy-GUI/botsy/src/bot.py: the loop body returns
\* from the function when the first post_tweet fails
daily_tweet_job_gui(count, flag) ==
  {LET r == post_tweet_gui(PostStart(count, flag), o)
   IN IF r.ret THEN [r EXCEPT !.success = TRUE] ELSE r : o \in PostOutcomes}

\* daily_tweet_job of botsy/src/bot.py: the same loop around post_tweet_botsy
RECURSIVE TweetJobFrom_botsy(_, _)
TweetJobFrom_botsy(st, i) ==
  IF i > MAX_AUTH_RETRIES THEN {[st EXCEPT !.reported = TRUE]}
  ELSE UNION {LET r == post_tweet_botsy(st, o)
              IN IF r.ret THEN {[r EXCEPT !.success = TRUE]}
                 ELSE TweetJobFrom_botsy(Sleep(r, RETRY_SLEEP), i + 1) :
                o \in PostOutcomes}

daily_tweet_job_botsy(count, flag) ==
  TweetJobFrom_botsy(PostStart(count, flag), 1)

----------------------------------------------------------------------------
(* The comment job: daily_comment *)

\* config["monitored_handles"], in dictionary order
MonitoredHandles == <<"h1", "h2">>

HandleSet == {MonitoredHandles[i] : i \in 1..Len(MonitoredHandles)}

\* a watermark is << >> (None, nothing replied to yet) or << id >>
NoWatermark == << >>

\* what the job can meet at one handle: no user id, a rate limit or another
\* error while fetching, no tweets, or a newest tweet with the given id
\* followed by a missing prompt, no generated reply, a failed or a
\* successful create_tweet
CommentInputs ==
  {[kind |-> k, id |-> 0] : k \in {"nouser", "ratelimit", "error", "nodata"}}
  \cup {[kind |-> k, id |-> n] :
          k \in {"noprompt", "nogen", "pubfail", "pubok"}, n \in 1..MaxId}

\* the guard comparing with < instead of <=
NotNewer_Strict(last_id, id) == last_id # NoWatermark /\ id < last_id[1]

\* if last_id and newest_tweet.id <= last_id
NotNewer(last_id, id) == last_id # NoWatermark /\ id <= last_id[1]

\* the iteration with the watermark stored before create_tweet is called,
\* whether or not the call then succeeds
CommentOnHandle_StoreFirst(last_id, x) ==
  LET skip(k) == [kind |-> k, id |-> x.id, before |-> last_id, after |-> last_id]
  IN IF x.kind \in {"nouser", "ratelimit", "error", "nodata"} THEN skip(x.kind)
     ELSE IF last_id # NoWatermark /\ x.id <= last_id[1] THEN skip("not_newer")
     ELSE IF x.kind \in {"noprompt", "nogen"} THEN skip(x.kind)
     ELSE [kind |-> IF x.kind = "pubfail" THEN "pubfail" ELSE "published",
           id |-> x.id, before |-> last_id, after |-> << x.id >>]

\* the iteration without the not-newer guard
CommentOnHandle_NoGuard(last_id, x) ==
  LET skip(k) == [kind |-> k, id |-> x.id, before |-> last_id, after |-> last_id]
  IN IF x.kind \in {"nouser", "ratelimit", "error", "nodata"} THEN skip(x.kind)
     ELSE IF x.kind \in {"noprompt", "nogen", "pubfail"} THEN skip(x.kind)
     ELSE [kind |-> "published", id |-> x.id, before |-> last_id,
           after |-> << x.id >>]

\* one iteration of the loop over the handles; the result tells what was
\* done (kind), with which tweet (id), against which watermark (before),
\* and the watermark left behind (after)
CommentOnHandle(last_id, x) ==
  LET skip(k) == [kind |-> k, id |-> x.id, before |-> last_id, after |-> last_id]
  IN IF x.kind \in {"nouser", "ratelimit", "error", "nodata"} THEN skip(x.kind)
     ELSE IF NotNewer(last_id, x.id) THEN skip("not_newer")
     ELSE IF x.kind \in {"noprompt", "nogen", "pubfail"} THEN skip(x.kind)
     ELSE [kind |-> "published", id |-> x.id, before |-> last_id,
           after |-> << x.id >>]

Unreached(last_id) ==
  [kind |-> "unreached", id |-> 0, before |-> last_id, after |-> last_id]

\* daily_comment: the loop over the handles, left by 'break' on a rate limit;
\* inputs[h] is what the job meets at handle h; the result is the per-handle
\* record of the run
RECURSIVE CommentFrom(_, _, _, _)
CommentFrom(wm, inputs, i, log) ==
  IF i > Len(MonitoredHandles) THEN log
  ELSE LET h == MonitoredHandles[i]
           r == CommentOnHandle(wm[h], inputs[h])
           log2 == [log EXCEPT ![h] = r]
       IN IF r.kind = "ratelimit" THEN log2
          ELSE CommentFrom(wm, inputs, i + 1, log2)

daily_comment(wm, inputs) ==
  CommentFrom(wm, inputs, 1, [h \in HandleSet |-> Unreached(wm[h])])

\* the watermarks a run leaves behind
WatermarksAfter(log) == [h \in HandleSet |-> log[h].after]

\* a create_tweet call was made for the handle
PublishCalled(r) == r.kind \in {"pubfail", "published"}

\* the record of a run, with the number of runs in a row, this one
\* included, in which create_tweet failed for the handle
WithFailures(log, prev) ==
  [h \in HandleSet |->
     [kind |-> log[h].kind, id |-> log[h].id,
      before |-> log[h].before, after |-> log[h].after,
      fails |-> IF log[h].kind = "pubfail" THEN prev[h].fails + 1 ELSE 0]]

NoRun == [h \in HandleSet |-> [kind |-> "none", id |-> 0,
                               before |-> NoWatermark, after |-> NoWatermark,
                               fails |-> 0]]

----------------------------------------------------------------------------
(* State of one bot *)

VARIABLES
  now,          \* the wall clock, in minutes
  jobs,         \* self.scheduler.jobs
  enabled,      \* the auto_<behavior>_enabled flags
  running,      \* self.running
  stop_event,   \* self._stop_event.is_set()
  threads,      \* the tick-loop threads: alive, and the jobs left of the
                \* list the current run_pending() call is iterating over
  forbidden,    \* self.consecutive_forbidden_count
  last_ids,     \* self.monitored_handles_last_ids
  cmds,         \* number of commands issued so far
  lastOp,       \* the handler that completed last
  lastPost,     \* PostSpec: how the last run of the post job went
  lastComment,  \* CommentSpec: how the last run of the comment job went
  pcW,          \* RaceSpec: how far each tick thread is in its job wrapper
  pcC,          \* RaceSpec: the command in progress on the command thread
  run_count,    \* self.post_run_count, comment_run_count, ...
  lastRun,      \* RunSpec: how the last 'run <behavior>' command went
  lastSched,    \* TimeSpec: how the last scheduling call with a configured
                \* time went
  emotions,     \* self.emotions, as multiples of 1/One
  mood_state,   \* self.mood_state
  personality,  \* self.personality, in units of 1/100
  mood_ops,     \* MoodSpec: number of mood and personality operations so far
  story         \* StorySpec: shared/story_state.json and the story jobs of
                \* the bots that share it

vars == <<now, jobs, enabled, running, stop_event, threads, forbidden,
          last_ids, cmds, lastOp, lastPost, lastComment, pcW, pcC,
          run_count, lastRun, lastSched, emotions, mood_state, personality,
          mood_ops, story>>

\* what only TimeSpec, MoodSpec and StorySpec change
auxVars == <<lastSched, emotions, mood_state, personality, mood_ops, story>>

\* what the actions of the bot-level specification Spec leave alone
extVars == <<lastPost, lastComment, pcW, pcC, run_count, lastRun, auxVars>>

ThreadIds == 1..MaxThreads

DeadThread == [alive |-> FALSE, queue |-> << >>]

AliveThreads == {t \in ThreadIds : threads[t].alive}

Op(name, b) == [op |-> name, b |-> b]

NoCommand == [cmd |-> "none", b |-> "none", pc |-> "idle"]

\* the behaviors with a 'run <behavior>' command that runs the job body
\* the number of times its run count says
Runnable == {"post", "comment", "reply", "story"}

NoRunCommand == [b |-> "none", count |-> 0, executed |-> 0, flag |-> FALSE]

NoSched == [b |-> "none", entry |-> << >>, handed |-> << >>, raised |-> FALSE]

\* the emotions followed: the five keys __init__ creates and three of the
\* keys update_mood_based_on_input adds; a key not yet in the dictionary
\* reads as 0.0 (self.emotions.get(emotion, 0.0))
EmotionNames ==
  {"excitement", "anxiety", "nostalgia", "happiness", "sadness",
   "playful", "jealous", "vengeful"}

InitialEmotions == [e \in EmotionNames |-> 0]

Traits ==
  {"openness", "conscientiousness", "extraversion", "agreeableness",
   "neuroticism"}

DefaultPersonality == [p \in Traits |-> 50]

\* the bots that share shared/story_state.json
Bots == {"bot1", "bot2"}

\* the shared file holds no entry, and no bot is inside its story job
NoStory ==
  [file |-> << >>,
   pc |-> [b \in Bots |-> "idle"],
   state |-> [b \in Bots |-> << >>],
   posted |-> [b \in Bots |-> 0]]

NoPost == [variant |-> "none", attempts |-> 0, kinds |-> {},
           trail |-> << >>, waits |-> << >>, removals |-> 0,
           success |-> FALSE, reported |-> FALSE]

\* the state __init__ leaves, at 11:30 of day 0
Init ==
  /\ now = 11 * 60 + 30
  /\ jobs = << >>
  /\ enabled = InitialFlags
  /\ running = FALSE
  /\ stop_event = FALSE
  /\ threads = [t \in ThreadIds |-> DeadThread]
  /\ forbidden = 0
  /\ last_ids = [h \in HandleSet |-> NoWatermark]
  /\ cmds = 0
  /\ lastOp = Op("init", "none")
  /\ lastPost = NoPost
  /\ lastComment = NoRun
  /\ pcW = [t \in ThreadIds |-> "idle"]
  /\ pcC = NoCommand
  /\ run_count = [b \in Runnable |-> 1]
  /\ lastRun = NoRunCommand
  /\ lastSched = NoSched
  /\ emotions = InitialEmotions
  /\ mood_state = "neutral"
  /\ personality = DefaultPersonality
  /\ mood_ops = 0
  /\ story = NoStory

----------------------------------------------------------------------------
(* The job bodies, as the wrappers and the 'run' commands execute them *)

\* what one run of daily_tweet_job can leave in consecutive_forbidden_count
\* and auto_post_enabled
PostJobEffects(c, f) ==
  {<<x.count, x.enabled>> : x \in daily_tweet_job(c, f)}

\* the same, tabulated for the counts up to MaxForbidden
PostTable ==
  [c \in 0..MaxForbidden |-> [f \in BOOLEAN |-> PostJobEffects(c, f)]]

PostResults(c, f) ==
  IF c \in 0..MaxForbidden THEN PostTable[c][f] ELSE PostJobEffects(c, f)

\* the watermarks one run of daily_comment can leave, for each mapping of
\* watermarks it can start from
CommentResults ==
  [wm \in [HandleSet -> {NoWatermark} \cup {<< n >> : n \in 1..MaxId}] |->
     {WatermarksAfter(daily_comment(wm, inputs)) :
        inputs \in [HandleSet -> CommentInputs]}]

\* the body of behavior b's job: daily_tweet_job for post, daily_comment_job
\* for comment; the other bodies touch none of the state modelled here
JobBody(b) ==
  IF b = "post"
  THEN /\ \E r \in PostResults(forbidden, enabled["post"]) :
            /\ forbidden' = r[1]
            /\ enabled' = [enabled EXCEPT !["post"] = r[2]]
       /\ UNCHANGED last_ids
  ELSE IF b = "comment"
       THEN /\ last_ids' \in CommentResults[last_ids]
            /\ UNCHANGED <<forbidden, enabled>>
       ELSE UNCHANGED <<forbidden, enabled, last_ids>>

\* the same body as a function of the state it works on: st holds
\* consecutive_forbidden_count, auto_post_enabled, the watermarks and the
\* number of times the body has been entered
BodyStep(b, st) ==
  LET entered == [st EXCEPT !.executed = st.executed + 1]
  IN IF b = "post"
     THEN {[entered EXCEPT !.forbidden = r[1], !.post_enabled = r[2]] :
             r \in PostResults(st.forbidden, st.post_enabled)}
     ELSE IF b = "comment"
          THEN {[entered EXCEPT !.last_ids = w] :
                  w \in CommentResults[st.last_ids]}
          ELSE {entered}

\* for _ in range(n): <body of b>, from iteration i on
RECURSIVE Repeat(_, _, _, _)
Repeat(b, S, i, n) ==
  IF i >= n THEN S
  ELSE Repeat(b, UNION {BodyStep(b, st) : st \in S}, i + 1, n)

\* the loop entering the body once, whatever the run count
BodyRuns_Once(b, n, st) == Repeat(b, {st}, 0, 1)

\* the states the loop of a 'run <behavior>' command can end in
BodyRuns(b, n, st) == Repeat(b, {st}, 0, n)

----------------------------------------------------------------------------
(* The tick loop: start_scheduler, one instance per thread *)

\* while not self._stop_event.is_set(): ... ends the thread
ThreadExit(t) ==
  /\ threads[t].alive /\ threads[t].queue = << >>
  /\ stop_event
  /\ threads' = [threads EXCEPT ![t] = DeadThread]
  /\ lastOp' = Op("exit", "none")
  /\ UNCHANGED <<now, jobs, enabled, running, stop_event, forbidden,
                 last_ids, cmds, extVars>>

\* self.scheduler.run_pending(): takes the sorted list of due jobs
RunPending(t) ==
  /\ threads[t].alive /\ threads[t].queue = << >>
  /\ ~stop_event
  /\ RunnableJobs(jobs, now) # << >>
  /\ threads' = [threads EXCEPT ![t].queue = RunnableJobs(jobs, now)]
  /\ lastOp' = Op("run_pending", "none")
  /\ UNCHANGED <<now, jobs, enabled, running, stop_event, forbidden,
                 last_ids, cmds, extVars>>

\* the wrapper without its scheduler.clear(tag)
RescheduleAfterRun_NoClear(js, flags, b, clock) ==
  ScheduleNext(js, flags, b, clock)

\* the tail of <b>_job_wrapper: clear the tag, then schedule again if the
\* flag is set
RescheduleAfterRun(js, flags, b, clock) ==
  ScheduleNext(ClearTag(js, Tag(b)), flags, b, clock)

\* run_pending() runs the next job of its list: <b>_job_wrapper
RunJob(t) ==
  /\ threads[t].alive /\ threads[t].queue # << >>
  /\ LET b == BehaviorOf(Head(threads[t].queue).tag)
     IN /\ JobBody(b)
        /\ jobs' \in RescheduleAfterRun(jobs, enabled', b, now)
        /\ lastOp' = Op("wrapper", b)
  /\ threads' = [threads EXCEPT ![t].queue = Tail(threads[t].queue)]
  /\ UNCHANGED <<now, running, stop_event, cmds, extVars>>

\* time passes until the next job of the registry falls due
AdvanceClock ==
  LET later == {jobs[i].next_run : i \in 1..Len(jobs)} \cap (now + 1)..MaxClock
  IN /\ later # {}
     /\ now' = CHOOSE m \in later : \A n \in later : m <= n
     /\ lastOp' = Op("clock", "none")
     /\ UNCHANGED <<jobs, enabled, running, stop_event, threads, forbidden,
                    last_ids, cmds, extVars>>

----------------------------------------------------------------------------
(* The commands: start, stop and process_console_command *)

\* the slot of the thread that threading.Thread(...).start() creates
FreeSlots == ThreadIds \ AliveThreads

Spawn(ths) ==
  LET t == CHOOSE x \in FreeSlots : \A y \in FreeSlots : x <= y
  IN [ths EXCEPT ![t] = [alive |-> TRUE, queue |-> << >>]]

\* start() without its 'if self.running: return'
StartBot_NoGuard ==
  /\ FreeSlots # {}
  /\ stop_event' = FALSE
  /\ enabled' = StartFlags
  /\ jobs' \in randomize_schedule(jobs, enabled', now)
  /\ threads' = Spawn(threads)
  /\ running' = TRUE
  /\ lastOp' = Op("start", IF running THEN "noop" ELSE "done")
  /\ UNCHANGED <<now, forbidden, last_ids, extVars>>

\* start()
StartBot ==
  /\ IF running
     THEN /\ lastOp' = Op("start", "noop")
          /\ UNCHANGED <<jobs, enabled, running, stop_event, threads>>
     ELSE /\ FreeSlots # {}
          /\ stop_event' = FALSE
          /\ enabled' = StartFlags
          /\ jobs' \in randomize_schedule(jobs, enabled', now)
          /\ threads' = Spawn(threads)
          /\ running' = TRUE
          /\ lastOp' = Op("start", "done")
  /\ UNCHANGED <<now, forbidden, last_ids, extVars>>

\* stop()
StopBot ==
  /\ IF ~running
     THEN /\ lastOp' = Op("stop", "noop")
          /\ UNCHANGED <<jobs, running, stop_event>>
     ELSE /\ stop_event' = TRUE
          /\ jobs' = ClearAll(jobs)
          /\ running' = FALSE
          /\ lastOp' = Op("stop", "done")
  /\ UNCHANGED <<now, enabled, threads, forbidden, last_ids, extVars>>

\* the bot console's 'start'
Start ==
  /\ cmds < MaxCmds
  /\ cmds' = cmds + 1
  /\ StartBot

\* the bot console's 'stop'
Stop ==
  /\ cmds < MaxCmds
  /\ cmds' = cmds + 1
  /\ StopBot

\* the master console's 'start <bot>' / 'start all'
MasterStart ==
  /\ StartBot
  /\ UNCHANGED cmds

\* the master console's 'stop <bot>' / 'stop all'
MasterStop ==
  /\ StopBot
  /\ UNCHANGED cmds

\* 'start <behavior>'
StartBehavior(b) ==
  /\ cmds < MaxCmds
  /\ cmds' = cmds + 1
  /\ IF ~enabled[b]
     THEN /\ enabled' = [enabled EXCEPT ![b] = TRUE]
          /\ jobs' \in ScheduleNext(jobs, enabled', b, now)
          /\ lastOp' = Op("start_behavior", b)
     ELSE /\ lastOp' = Op("start_behavior", "noop")
          /\ UNCHANGED <<jobs, enabled>>
  /\ UNCHANGED <<now, running, stop_event, threads, forbidden, last_ids, extVars>>

\* 'stop <behavior>'
StopBehavior(b) ==
  /\ cmds < MaxCmds
  /\ cmds' = cmds + 1
  /\ IF enabled[b]
     THEN /\ jobs' = ClearTag(jobs, Tag(b))
          /\ enabled' = [enabled EXCEPT ![b] = FALSE]
          /\ lastOp' = Op("stop_behavior", b)
     ELSE /\ lastOp' = Op("stop_behavior", "noop")
          /\ UNCHANGED <<jobs, enabled>>
  /\ UNCHANGED <<now, running, stop_event, threads, forbidden, last_ids, extVars>>

\* 'new random post|comment|reply'
NewRandom(b) ==
  /\ cmds < MaxCmds
  /\ cmds' = cmds + 1
  /\ jobs' \in ScheduleNext(ClearTag(jobs, Tag(b)), enabled, b, now)
  /\ lastOp' = Op("new_random", b)
  /\ UNCHANGED <<now, enabled, running, stop_event, threads, forbidden,
                 last_ids, extVars>>

\* 'new random all'
NewRandomAll ==
  /\ cmds < MaxCmds
  /\ cmds' = cmds + 1
  /\ jobs' \in re_randomize_schedule(jobs, enabled, now)
  /\ lastOp' = Op("new_random", "all")
  /\ UNCHANGED <<now, enabled, running, stop_event, threads, forbidden,
                 last_ids, extVars>>

\* 'run <behavior>': the job body, run_count[b] times, in the handler
Run(b) ==
  /\ cmds < MaxCmds
  /\ cmds' = cmds + 1
  /\ \E st \in BodyRuns(b, run_count[b],
                        [forbidden |-> forbidden, post_enabled |-> enabled["post"],
                         last_ids |-> last_ids, executed |-> 0]) :
       /\ forbidden' = st.forbidden
       /\ enabled' = [enabled EXCEPT !["post"] = st.post_enabled]
       /\ last_ids' = st.last_ids
       /\ lastRun' = [b |-> b, count |-> run_count[b],
                      executed |-> st.executed, flag |-> enabled[b]]
  /\ lastOp' = Op("run", b)
  /\ UNCHANGED <<now, jobs, running, stop_event, threads, lastPost,
                 lastComment, pcW, pcC, run_count, auxVars>>

\* 'set <behavior> count <value>': int(value) accepts any integer
SetCount(b, v) ==
  /\ cmds < MaxCmds
  /\ cmds' = cmds + 1
  /\ run_count' = [run_count EXCEPT ![b] = v]
  /\ lastOp' = Op("set_count", b)
  /\ UNCHANGED <<now, jobs, enabled, running, stop_event, threads, forbidden,
                 last_ids, lastPost, lastComment, pcW, pcC, lastRun, auxVars>>

Command ==
  \/ Start
  \/ Stop
  \/ \E b \in Behaviors : StartBehavior(b)
  \/ \E b \in Behaviors : StopBehavior(b)
  \/ \E b \in Randomized : NewRandom(b)
  \/ NewRandomAll
  \/ \E b \in Runnable : Run(b)

Tick ==
  \/ \E t \in ThreadIds : RunPending(t)
  \/ \E t \in ThreadIds : RunJob(t)
  \/ \E t \in ThreadIds : ThreadExit(t)

Next == Command \/ Tick \/ AdvanceClock

Spec == Init /\ [][Next]_vars

----------------------------------------------------------------------------
(* LifecycleSpec: the bot driven from the master console only, which      *)
(* starts and stops it any number of times                                *)

LifecycleNext == MasterStart \/ MasterStop \/ Tick \/ AdvanceClock

LifecycleSpec == Init /\ [][LifecycleNext]_vars

----------------------------------------------------------------------------
(* CrashSpec: LifecycleSpec with job invocations that raise                *)

\* a job of the run_pending() list raises out of its wrapper: an exception
\* that is not a tweepy.TweepyException leaves post_tweet, and nothing
\* between the wrapper and the thread's target catches it: run_pending()
\* and start_scheduler() are left and the thread ends.  The wrapper's
\* clear() was not reached, so the job stays in the registry; stop() was
\* not called, so running and the stop event stay as they are.
RunJobRaises(t) ==
  /\ threads[t].alive /\ threads[t].queue # << >>
  /\ threads' = [threads EXCEPT ![t] = DeadThread]
  /\ lastOp' = Op("raised", BehaviorOf(Head(threads[t].queue).tag))
  /\ UNCHANGED <<now, jobs, enabled, running, stop_event, forbidden,
                 last_ids, cmds, extVars>>

CrashNext == LifecycleNext \/ \E t \in ThreadIds : RunJobRaises(t)

CrashSpec == Init /\ [][CrashNext]_vars

----------------------------------------------------------------------------
(* RunSpec: the manual triggers: 'set <behavior> count', 'run <behavior>', *)
(* with 'start <behavior>' and 'stop <behavior>' to set the flags         *)

RunNext ==
  \/ \E b \in Runnable, v \in -1..MaxCount : SetCount(b, v)
  \/ \E b \in Runnable : Run(b)
  \/ \E b \in Runnable : StartBehavior(b)
  \/ \E b \in Runnable : StopBehavior(b)

RunSpec == Init /\ [][RunNext]_vars

----------------------------------------------------------------------------
(* FiringSpec: 'set <behavior> count' commands and scheduled firings of    *)
(* the wrappers of src/src/bot.py and of src/botsy/src/bot.py              *)

\* the behaviors whose firings are followed
FiringBehaviors == {"post", "reply"}

RunStart ==
  [forbidden |-> forbidden, post_enabled |-> enabled["post"],
   last_ids |-> last_ids, executed |-> 0]

\* <b>_job_wrapper of src/src/bot.py fired by the tick loop: the body, then
\* the tag is cleared and the job scheduled again
WrapperFire_src(b) ==
  /\ \E st \in BodyStep(b, RunStart) :
       /\ st.forbidden <= MaxForbidden
       /\ forbidden' = st.forbidden
       /\ enabled' = [enabled EXCEPT !["post"] = st.post_enabled]
       /\ last_ids' = st.last_ids
       /\ lastRun' = [b |-> b, count |-> run_count[b],
                      executed |-> st.executed, flag |-> enabled[b]]
  /\ jobs' \in RescheduleAfterRun(jobs, enabled', b, now)
  /\ lastOp' = Op("wrapper", b)
  /\ UNCHANGED <<now, running, stop_event, threads, cmds, lastPost,
                 lastComment, pcW, pcC, run_count, auxVars>>

\* the body of a wrapper of src/botsy/src/bot.py: daily_tweet_job of that
\* file for post; the reply body touches none of the state modelled here
BodyStep_botsy(b, st) ==
  LET entered == [st EXCEPT !.executed = st.executed + 1]
  IN IF b = "post"
     THEN {[entered EXCEPT !.forbidden = r.count, !.post_enabled = r.enabled] :
             r \in daily_tweet_job_botsy(st.forbidden, st.post_enabled)}
     ELSE {entered}

\* for _ in range(self.<b>_run_count): self.<body>()
RECURSIVE Repeat_botsy(_, _, _, _)
Repeat_botsy(b, S, i, n) ==
  IF i >= n THEN S
  ELSE Repeat_botsy(b, UNION {BodyStep_botsy(b, st) : st \in S}, i + 1, n)

\* post_job_wrapper and reply_job_wrapper of src/botsy/src/bot.py fired by
\* the tick loop: the loop is the whole wrapper
WrapperFire_botsy(b) ==
  /\ \E st \in Repeat_botsy(b, {RunStart}, 0, run_count[b]) :
       /\ st.forbidden <= MaxForbidden
       /\ forbidden' = st.forbidden
       /\ enabled' = [enabled EXCEPT !["post"] = st.post_enabled]
       /\ lastRun' = [b |-> b, count |-> run_count[b],
                      executed |-> st.executed, flag |-> enabled[b]]
  /\ lastOp' = Op("wrapper_botsy", b)
  /\ UNCHANGED <<now, jobs, running, stop_event, threads, last_ids, cmds,
                 lastPost, lastComment, pcW, pcC, run_count, auxVars>>

FiringNext ==
  \/ \E b \in Runnable, v \in -1..MaxCount : SetCount(b, v)
  \/ \E b \in FiringBehaviors : WrapperFire_src(b)
  \/ \E b \in FiringBehaviors : WrapperFire_botsy(b)

FiringSpec == Init /\ [][FiringNext]_vars

----------------------------------------------------------------------------
(* ConsoleSpec: the bot started and stopped from the master console any   *)
(* number of times, with 'start <behavior>' and 'stop <behavior>' commands *)
(* of the bot console in between; the clock stands still                  *)

ConsoleNext ==
  \/ MasterStart
  \/ MasterStop
  \/ \E b \in Behaviors : StartBehavior(b)
  \/ \E b \in Behaviors : StopBehavior(b)
  \/ \E t \in ThreadIds : ThreadExit(t)

ConsoleSpec == Init /\ [][ConsoleNext]_vars

----------------------------------------------------------------------------
(* GuiSpec: the commands of Botsy-GUI/botsy/src/bot.py.  Its start(),     *)
(* stop() and randomize_schedule read as those of src/src/bot.py; its     *)
(* post commands name the tag "randomized_post" and the method            *)
(* schedule_next_post_job, where the job is scheduled by                  *)
(* schedule_next_tweet_job under the tag "randomized_tweet".              *)

\* the tag a 'stop <behavior>' or 'new random <behavior>' command clears
CommandTag_gui(b) ==
  IF b = "post" THEN "randomized_post" ELSE Tag(b)

\* what the command's scheduling call does: self.schedule_next_post_job()
\* raises AttributeError (the class has no such method) and adds nothing
ScheduleNext_gui(js, flags, b, clock) ==
  IF b = "post" THEN {js} ELSE ScheduleNext(js, flags, b, clock)

\* 'start <behavior>'
StartBehavior_gui(b) ==
  /\ cmds < MaxCmds
  /\ cmds' = cmds + 1
  /\ IF ~enabled[b]
     THEN /\ enabled' = [enabled EXCEPT ![b] = TRUE]
          /\ jobs' \in ScheduleNext_gui(jobs, enabled', b, now)
          /\ lastOp' = Op("start_behavior", b)
     ELSE /\ lastOp' = Op("start_behavior", "noop")
          /\ UNCHANGED <<jobs, enabled>>
  /\ UNCHANGED <<now, running, stop_event, threads, forbidden, last_ids, extVars>>

\* 'stop <behavior>'
StopBehavior_gui(b) ==
  /\ cmds < MaxCmds
  /\ cmds' = cmds + 1
  /\ IF enabled[b]
     THEN /\ jobs' = ClearTag(jobs, CommandTag_gui(b))
          /\ enabled' = [enabled EXCEPT ![b] = FALSE]
          /\ lastOp' = Op("stop_behavior", b)
     ELSE /\ lastOp' = Op("stop_behavior", "noop")
          /\ UNCHANGED <<jobs, enabled>>
  /\ UNCHANGED <<now, running, stop_event, threads, forbidden, last_ids, extVars>>

\* 'new random post|comment|reply'
NewRandom_gui(b) ==
  /\ cmds < MaxCmds
  /\ cmds' = cmds + 1
  /\ jobs' \in ScheduleNext_gui(ClearTag(jobs, CommandTag_gui(b)), enabled, b, now)
  /\ lastOp' = Op("new_random", b)
  /\ UNCHANGED <<now, enabled, running, stop_event, threads, forbidden,
                 last_ids, extVars>>

\* re_randomize_schedule of the GUI copy: the three randomized tags are
\* cleared, then randomize_schedule adds a job for every enabled behavior
re_randomize_schedule_gui(js, flags, clock) ==
  randomize_schedule(
    ClearTag(ClearTag(ClearTag(js, "randomized_tweet"), "randomized_comment"),
             "randomized_reply"),
    flags, clock)

\* 'new random all'
NewRandomAll_gui ==
  /\ cmds < MaxCmds
  /\ cmds' = cmds + 1
  /\ jobs' \in re_randomize_schedule_gui(jobs, enabled, now)
  /\ lastOp' = Op("new_random", "all")
  /\ UNCHANGED <<now, enabled, running, stop_event, threads, forbidden,
                 last_ids, extVars>>

GuiNext ==
  \/ Start
  \/ Stop
  \/ \E b \in Behaviors : StartBehavior_gui(b)
  \/ \E b \in Behaviors : StopBehavior_gui(b)
  \/ \E b \in Randomized : NewRandom_gui(b)
  \/ NewRandomAll_gui
  \/ \E t \in ThreadIds : ThreadExit(t)

GuiSpec == Init /\ [][GuiNext]_vars

----------------------------------------------------------------------------
(* RaceSpec: a job wrapper on the tick thread and a 'stop <behavior>'      *)
(* command on the command thread, each taken one statement at a time.     *)
(* The bot is first brought up with whole start and 'start <behavior>'    *)
(* commands; nothing in the source serialises the two threads.            *)

WrapperBehavior(t) == BehaviorOf(Head(threads[t].queue).tag)

\* the wrapper returns: run_pending() moves on to the next job of its list
WrapperReturn(t) ==
  /\ threads' = [threads EXCEPT ![t].queue = Tail(threads[t].queue)]
  /\ pcW' = [pcW EXCEPT ![t] = "idle"]
  /\ lastOp' = Op("wrapper", WrapperBehavior(t))

\* self.daily_<b>_job()
WBody(t) ==
  /\ threads[t].alive /\ threads[t].queue # << >> /\ pcW[t] = "idle"
  /\ JobBody(WrapperBehavior(t))
  /\ pcW' = [pcW EXCEPT ![t] = "clear"]
  /\ UNCHANGED <<now, jobs, running, stop_event, threads, cmds, lastOp,
                 lastPost, lastComment, pcC,
                 run_count, lastRun, auxVars>>

\* self.scheduler.clear(tag)
WClear(t) ==
  /\ pcW[t] = "clear"
  /\ jobs' = ClearTag(jobs, Tag(WrapperBehavior(t)))
  /\ pcW' = [pcW EXCEPT ![t] = "check"]
  /\ UNCHANGED <<now, enabled, running, stop_event, threads, forbidden,
                 last_ids, cmds, lastOp, lastPost, lastComment, pcC,
                 run_count, lastRun, auxVars>>

\* if self.auto_<b>_enabled:
WCheck(t) ==
  /\ pcW[t] = "check"
  /\ IF enabled[WrapperBehavior(t)]
     THEN /\ pcW' = [pcW EXCEPT ![t] =
                       IF WrapperBehavior(t) \in Randomized
                       THEN "schedule" ELSE "append"]
          /\ UNCHANGED <<threads, lastOp>>
     ELSE WrapperReturn(t)
  /\ UNCHANGED <<now, jobs, enabled, running, stop_event, forbidden,
                 last_ids, cmds, lastPost, lastComment, pcC,
                 run_count, lastRun, auxVars>>

\* schedule_next_<b>_job: if not self.auto_<b>_enabled: return
WSchedule(t) ==
  /\ pcW[t] = "schedule"
  /\ IF enabled[WrapperBehavior(t)]
     THEN /\ pcW' = [pcW EXCEPT ![t] = "append"]
          /\ UNCHANGED <<threads, lastOp>>
     ELSE WrapperReturn(t)
  /\ UNCHANGED <<now, jobs, enabled, running, stop_event, forbidden,
                 last_ids, cmds, lastPost, lastComment, pcC,
                 run_count, lastRun, auxVars>>

\* self.scheduler.every()...do(...).tag(tag)
WAppend(t) ==
  /\ pcW[t] = "append"
  /\ jobs' \in AppendJob(jobs, WrapperBehavior(t), now)
  /\ WrapperReturn(t)
  /\ UNCHANGED <<now, enabled, running, stop_event, forbidden, last_ids,
                 cmds, lastPost, lastComment, pcC,
                 run_count, lastRun, auxVars>>

\* 'stop <behavior>': if self.auto_<b>_enabled:
SBegin(b) ==
  /\ pcC = NoCommand
  /\ cmds < MaxCmds
  /\ cmds' = cmds + 1
  /\ pcC' = [cmd |-> "stop", b |-> b,
             pc |-> IF enabled[b] THEN "clear" ELSE "noop"]
  /\ UNCHANGED <<now, jobs, enabled, running, stop_event, threads,
                 forbidden, last_ids, lastOp, lastPost, lastComment, pcW,
                 run_count, lastRun, auxVars>>

\* self.scheduler.clear(tag)
SClear ==
  /\ pcC.cmd = "stop" /\ pcC.pc = "clear"
  /\ jobs' = ClearTag(jobs, Tag(pcC.b))
  /\ pcC' = [pcC EXCEPT !.pc = "flag"]
  /\ UNCHANGED <<now, enabled, running, stop_event, threads, forbidden,
                 last_ids, cmds, lastOp, lastPost, lastComment, pcW,
                 run_count, lastRun, auxVars>>

\* self.auto_<b>_enabled = False
SFlag ==
  /\ pcC.cmd = "stop" /\ pcC.pc = "flag"
  /\ enabled' = [enabled EXCEPT ![pcC.b] = FALSE]
  /\ pcC' = [pcC EXCEPT !.pc = "done"]
  /\ lastOp' = Op("stop_behavior", pcC.b)
  /\ UNCHANGED <<now, jobs, running, stop_event, threads, forbidden,
                 last_ids, cmds, lastPost, lastComment, pcW,
                 run_count, lastRun, auxVars>>

RaceSetup ==
  /\ pcC = NoCommand
  /\ \/ Start
     \/ \E b \in Behaviors : StartBehavior(b)

RaceNext ==
  \/ RaceSetup
  \/ AdvanceClock
  \/ \E t \in ThreadIds : RunPending(t)
  \/ \E t \in ThreadIds : WBody(t)
  \/ \E t \in ThreadIds : WClear(t)
  \/ \E t \in ThreadIds : WCheck(t)
  \/ \E t \in ThreadIds : WSchedule(t)
  \/ \E t \in ThreadIds : WAppend(t)
  \/ \E b \in Behaviors : SBegin(b)
  \/ SClear
  \/ SFlag

RaceSpec == Init /\ [][RaceNext]_vars

----------------------------------------------------------------------------
(* ReplaceSpec: a job wrapper on the tick thread and a 'new random         *)
(* <behavior>' command on the command thread, each taken one statement at  *)
(* a time                                                                  *)

\* 'new random <behavior>' is dispatched
NBegin(b) ==
  /\ pcC = NoCommand
  /\ cmds < MaxCmds
  /\ cmds' = cmds + 1
  /\ pcC' = [cmd |-> "new_random", b |-> b, pc |-> "clear"]
  /\ UNCHANGED <<now, jobs, enabled, running, stop_event, threads,
                 forbidden, last_ids, lastOp, lastPost, lastComment, pcW,
                 run_count, lastRun, auxVars>>

\* self.scheduler.clear(tag)
NClear ==
  /\ pcC.cmd = "new_random" /\ pcC.pc = "clear"
  /\ jobs' = ClearTag(jobs, Tag(pcC.b))
  /\ pcC' = [pcC EXCEPT !.pc = "schedule"]
  /\ UNCHANGED <<now, enabled, running, stop_event, threads, forbidden,
                 last_ids, cmds, lastOp, lastPost, lastComment, pcW,
                 run_count, lastRun, auxVars>>

\* if self.auto_<b>_enabled: self.schedule_next_<b>_job()
NSchedule ==
  /\ pcC.cmd = "new_random" /\ pcC.pc = "schedule"
  /\ jobs' \in ScheduleNext(jobs, enabled, pcC.b, now)
  /\ pcC' = [pcC EXCEPT !.pc = "done"]
  /\ lastOp' = Op("new_random", pcC.b)
  /\ UNCHANGED <<now, enabled, running, stop_event, threads, forbidden,
                 last_ids, cmds, lastPost, lastComment, pcW,
                 run_count, lastRun, auxVars>>

ReplaceNext ==
  \/ RaceSetup
  \/ AdvanceClock
  \/ \E t \in ThreadIds : RunPending(t)
  \/ \E t \in ThreadIds : WBody(t)
  \/ \E t \in ThreadIds : WClear(t)
  \/ \E t \in ThreadIds : WCheck(t)
  \/ \E t \in ThreadIds : WSchedule(t)
  \/ \E t \in ThreadIds : WAppend(t)
  \/ \E b \in Randomized : NBegin(b)
  \/ NClear
  \/ NSchedule

ReplaceSpec == Init /\ [][ReplaceNext]_vars

----------------------------------------------------------------------------
(* CommentSpec: the comment job fired again and again by its wrapper on   *)
(* the tick thread, one run at a time                                     *)

\* daily_comment_job
CommentBody ==
  \E inputs \in [HandleSet -> CommentInputs] :
    LET log == daily_comment(last_ids, inputs)
        rec == WithFailures(log, lastComment)
    IN /\ \A h \in HandleSet : rec[h].fails <= MaxFailures
       /\ last_ids' = WatermarksAfter(log)
       /\ lastComment' = rec

\* comment_job_wrapper
CommentJobRun ==
  /\ CommentBody
  /\ jobs' \in RescheduleAfterRun(jobs, enabled, "comment", now)
  /\ lastOp' = Op("wrapper", "comment")
  /\ UNCHANGED <<now, enabled, running, stop_event, threads,
                 forbidden, cmds, lastPost, pcW, pcC,
                 run_count, lastRun, auxVars>>

CommentNext == CommentJobRun

CommentSpec == Init /\ [][CommentNext]_vars

----------------------------------------------------------------------------
(* IdSpec: the comment job of the GUI copy (and of                         *)
(* src/botsy/src/platforms/twitter.py, which reads the same) run again and *)
(* again, with tweet ids of one and of two digits                          *)

WideIds == {1, 9, 10}

DigitChar(d) ==
  CASE d = 0 -> "0" [] d = 1 -> "1" [] d = 2 -> "2" [] d = 3 -> "3"
    [] d = 4 -> "4" [] d = 5 -> "5" [] d = 6 -> "6" [] d = 7 -> "7"
    [] d = 8 -> "8" [] d = 9 -> "9"

\* str(n) for 0 <= n <= 99
Str(n) ==
  IF n < 10 THEN << DigitChar(n) >>
  ELSE << DigitChar(n \div 10), DigitChar(n % 10) >>

\* a <= b on Python strings: by the first character that differs, a proper
\* prefix being smaller
RECURSIVE StrLeq(_, _)
StrLeq(a, b) ==
  IF a = << >> THEN TRUE
  ELSE IF b = << >> THEN FALSE
  ELSE IF Head(a) = Head(b) THEN StrLeq(Tail(a), Tail(b))
  ELSE DigitVal(Head(a)) < DigitVal(Head(b))

\* if last_id and tweet_id <= str(last_id), with tweet_id = str(newest_tweet.id)
NotNewer_gui(last_id, id) ==
  last_id # NoWatermark /\ StrLeq(Str(id), Str(last_id[1]))

\* what the job is made to meet at one handle: a rate limit, no tweets, or
\* a newest tweet with the given id followed by no generated reply or a
\* successful create_tweet
CommentInputs_gui ==
  {[kind |-> k, id |-> 0] : k \in {"ratelimit", "nodata"}}
  \cup {[kind |-> k, id |-> n] : k \in {"nogen", "pubok"}, n \in WideIds}

\* one iteration of the loop over the handles in the GUI copy
CommentOnHandle_gui(last_id, x) ==
  LET skip(k) == [kind |-> k, id |-> x.id, before |-> last_id, after |-> last_id]
  IN IF x.kind \in {"nouser", "ratelimit", "error", "nodata"} THEN skip(x.kind)
     ELSE IF NotNewer_gui(last_id, x.id) THEN skip("not_newer")
     ELSE IF x.kind \in {"noprompt", "nogen", "pubfail"} THEN skip(x.kind)
     ELSE [kind |-> "published", id |-> x.id, before |-> last_id,
           after |-> << x.id >>]

\* daily_comment of the GUI copy: the loop is left by 'return' on a rate
\* limit
RECURSIVE CommentFrom_gui(_, _, _, _)
CommentFrom_gui(wm, inputs, i, log) ==
  IF i > Len(MonitoredHandles) THEN log
  ELSE LET h == MonitoredHandles[i]
           r == CommentOnHandle_gui(wm[h], inputs[h])
           log2 == [log EXCEPT ![h] = r]
       IN IF r.kind = "ratelimit" THEN log2
          ELSE CommentFrom_gui(wm, inputs, i + 1, log2)

daily_comment_gui(wm, inputs) ==
  CommentFrom_gui(wm, inputs, 1, [h \in HandleSet |-> Unreached(wm[h])])

CommentJobRun_gui ==
  /\ \E inputs \in [HandleSet -> CommentInputs_gui] :
       LET log == daily_comment_gui(last_ids, inputs)
           rec == WithFailures(log, lastComment)
       IN /\ \A h \in HandleSet : rec[h].fails <= MaxFailures
          /\ last_ids' = WatermarksAfter(log)
          /\ lastComment' = rec
  /\ lastOp' = Op("run", "comment")
  /\ UNCHANGED <<now, jobs, enabled, running, stop_event, threads,
                 forbidden, cmds, lastPost, pcW, pcC,
                 run_count, lastRun, auxVars>>

IdNext == CommentJobRun_gui

IdSpec == Init /\ [][IdNext]_vars

----------------------------------------------------------------------------
(* PostSpec: the post job run again and again, in the source tree's three *)
(* versions of daily_tweet_job                                            *)

PostVariants == {"src", "gui", "botsy"}

PostJobResults(v) ==
  IF v = "src" THEN daily_tweet_job(forbidden, enabled["post"])
  ELSE IF v = "gui" THEN daily_tweet_job_gui(forbidden, enabled["post"])
  ELSE daily_tweet_job_botsy(forbidden, enabled["post"])

PostJobRun(v) ==
  /\ \E r \in PostJobResults(v) :
       /\ r.count <= MaxForbidden
       /\ forbidden' = r.count
       /\ enabled' = [enabled EXCEPT !["post"] = r.enabled]
       /\ lastPost' = [variant |-> v, attempts |-> r.attempts,
                       kinds |-> r.kinds, trail |-> r.trail,
                       waits |-> r.waits, removals |-> r.removals,
                       success |-> r.success, reported |-> r.reported]
  /\ lastOp' = Op("run", "post")
  /\ UNCHANGED <<now, jobs, running, stop_event, threads, last_ids, cmds,
                 lastComment, pcW, pcC,
                 run_count, lastRun, auxVars>>

PostNext == \E v \in PostVariants : PostJobRun(v)

PostSpec == Init /\ [][PostNext]_vars

----------------------------------------------------------------------------
(* PostWrapperSpec: the post job of src/src/bot.py fired through its       *)
(* wrapper again and again                                                 *)

\* tweet_job_wrapper of src/src/bot.py fired by the tick loop: the body,
\* then clear("randomized_tweet"), then schedule_next_tweet_job if the flag
\* is still set
TweetWrapperFire ==
  /\ \E r \in daily_tweet_job(forbidden, enabled["post"]) :
       /\ r.count <= MaxForbidden
       /\ forbidden' = r.count
       /\ enabled' = [enabled EXCEPT !["post"] = r.enabled]
       /\ lastPost' = [variant |-> "src", attempts |-> r.attempts,
                       kinds |-> r.kinds, trail |-> r.trail,
                       waits |-> r.waits, removals |-> r.removals,
                       success |-> r.success, reported |-> r.reported]
  /\ jobs' \in RescheduleAfterRun(jobs, enabled', "post", now)
  /\ lastOp' = Op("wrapper", "post")
  /\ UNCHANGED <<now, running, stop_event, threads, last_ids, cmds,
                 lastComment, pcW, pcC,
                 run_count, lastRun, auxVars>>

PostWrapperNext == TweetWrapperFire

PostWrapperSpec == Init /\ [][PostWrapperNext]_vars

----------------------------------------------------------------------------
(* ReenableSpec: firings of the post job with 'start post' commands in     *)
(* between                                                                 *)

ReenableNext == TweetWrapperFire \/ StartBehavior("post")

ReenableSpec == Init /\ [][ReenableNext]_vars

----------------------------------------------------------------------------
(* PromptSpec: process_console_command followed to the places where it    *)
(* reads standard input; pcC.pc is the handler's position                  *)

PromptFrame ==
  UNCHANGED <<now, jobs, enabled, running, stop_event, threads, forbidden,
              last_ids, cmds, lastPost, lastComment, pcW, lastRun, auxVars>>

HandlerIdle == pcC.pc \in {"idle", "returned", "raised"}

\* 'set <behavior> count <value>': the branch stores the count, then the
\* handler reaches input("Press Enter to continue...")
PSetCount(b, v) ==
  /\ HandlerIdle
  /\ run_count' = [run_count EXCEPT ![b] = v]
  /\ pcC' = [cmd |-> "set_count", b |-> b, pc |-> "input"]
  /\ lastOp' = Op("set_count", b)
  /\ PromptFrame

\* 'run dm <recipient>': the branch reaches input("Enter DM message: ")
PRunDm ==
  /\ HandlerIdle
  /\ pcC' = [cmd |-> "run_dm", b |-> "dm", pc |-> "input_message"]
  /\ lastOp' = Op("run_dm", "dm")
  /\ UNCHANGED run_count
  /\ PromptFrame

\* a line arrives on standard input: the message prompt goes on to send_dm
\* and the closing prompt, the closing prompt returns to the caller
PEnter ==
  /\ pcC.pc \in {"input_message", "input"}
  /\ pcC' = [pcC EXCEPT !.pc = IF pcC.pc = "input_message" THEN "input"
                                ELSE "returned"]
  /\ lastOp' = Op("enter", pcC.b)
  /\ UNCHANGED run_count
  /\ PromptFrame

\* standard input is closed: input() raises EOFError, which leaves the
\* handler (api_command answers 500)
PEof ==
  /\ pcC.pc \in {"input_message", "input"}
  /\ pcC' = [pcC EXCEPT !.pc = "raised"]
  /\ lastOp' = Op("eof", pcC.b)
  /\ UNCHANGED run_count
  /\ PromptFrame

PromptNext ==
  \/ \E b \in Runnable, v \in -1..MaxCount : PSetCount(b, v)
  \/ PRunDm
  \/ PEnter
  \/ PEof

PromptSpec == Init /\ [][PromptNext]_vars

----------------------------------------------------------------------------
(* TimeSpec: the first scheduling call of a randomized behavior, with the  *)
(* configured list holding one entry drawn from the strings over           *)
(* TimeAlphabet                                                            *)

TimeAlphabet == {"1", "2", "6", ":"}

TimeEntries ==
  UNION {[1..n -> TimeAlphabet] : n \in 0..MaxTimeLen}

\* Job.at(time_str) of a daily job: the string has to match
\* ^[0-2]\d:[0-5]\d(:[0-5]\d)?$ and name an hour up to 23, otherwise
\* ScheduleValueError is raised.  validate_time lets no string with a
\* seconds part through, so the optional group is left out.
AtAccepts(s) ==
  /\ Len(s) = 5
  /\ s[1] \in {"0", "1", "2"} /\ s[2] \in Digits /\ s[3] = ":"
  /\ s[4] \in {"0", "1", "2", "3", "4", "5"} /\ s[5] \in Digits
  /\ DigitVal(s[1]) * 10 + DigitVal(s[2]) <= 23

\* schedule_next_<b>_job with <b>_times = [entry], reached through
\* 'new random <b>': the tag is cleared, the entry goes through
\* validate_time, and every().day.at() either adds the job or raises
ScheduleConfigured(b, entry) ==
  LET handed == validate_time(entry, DefaultTime(b))
      raised == ~AtAccepts(handed)
      cleared == ClearTag(jobs, Tag(b))
  IN /\ lastSched.b = "none"
     /\ enabled[b]
     /\ jobs' = IF raised THEN cleared
                ELSE Append(cleared, Job(Tag(b), NextDailyRun(now, handed)))
     /\ lastSched' = [b |-> b, entry |-> entry, handed |-> handed,
                      raised |-> raised]
     /\ lastOp' = Op("schedule_next", b)
     /\ UNCHANGED <<now, enabled, running, stop_event, threads, forbidden,
                    last_ids, cmds, lastPost, lastComment, pcW, pcC,
                    run_count, lastRun, emotions, mood_state, personality,
                    mood_ops, story>>

TimeNext == \E b \in Randomized, entry \in TimeEntries : ScheduleConfigured(b, entry)

TimeSpec == Init /\ [][TimeNext]_vars

----------------------------------------------------------------------------
(* The emotional state.  An emotion value v is held as the integer         *)
(* v * One, rounded down after each multiplication; a personality value    *)
(* is held in hundredths.                                                  *)

\* the 1.0 of min(blended, 1.0)
One == 100000

\* the trigger phrases of update_mood_based_on_input that the texts fed in
\* contain
TriggersIn(text) ==
  CASE text = "lol" -> {"lol"}
    [] text = "i'm so jealous" -> {"i'm so jealous"}
    [] text = "revenge" -> {"revenge"}
    [] text = "lol, revenge, i'm so jealous" -> {"lol", "i'm so jealous", "revenge"}
    [] OTHER -> {}

\* new_emotions: what the text sets for each emotion followed here
Detected(text) ==
  [e \in EmotionNames |->
     IF e = "playful" /\ "lol" \in TriggersIn(text) THEN (8 * One) \div 10
     ELSE IF e = "jealous" /\ "i'm so jealous" \in TriggersIn(text) THEN (9 * One) \div 10
     ELSE IF e = "vengeful" /\ "revenge" \in TriggersIn(text) THEN (8 * One) \div 10
     ELSE 0]

\* emotion_list: the keys the loop of update_mood_based_on_input writes
EmotionList ==
  {"happy", "sad", "angry", "fearful", "surprised", "disgusted", "calm",
   "sarcastic", "vindictive", "vengeful", "jealous", "spiteful",
   "embarrassed", "playful", "anxious", "excited", "nostalgic", "hopeful",
   "confused", "proud", "envious", "apologetic"}

\* the keys compute_overall_mood reads
MoodInputs == {"excitement", "happiness", "anxiety", "sadness"}

Min(a, b) == IF a <= b THEN a ELSE b

Max(a, b) == IF a >= b THEN a ELSE b

\* alpha = 0.7, growth_factor = 1.05
Blend(current_val, detected) ==
  LET blended == (7 * current_val + 3 * detected) \div 10
      grown == IF detected > (7 * One) \div 10 THEN (blended * 105) \div 100
               ELSE blended
  IN Min(grown, One)

\* compute_overall_mood
compute_overall_mood(em) ==
  LET pos == em["excitement"] + em["happiness"]
      neg == em["anxiety"] + em["sadness"]
  IN IF 10 * pos > 10 * neg + One THEN "happy"
     ELSE IF 10 * neg > 10 * pos + One THEN "sad"
     ELSE "neutral"

\* the emotions after update_mood_based_on_input(text)
update_mood_based_on_input(em, text) ==
  [e \in EmotionNames |->
     IF e \in EmotionList THEN Blend(em[e], Detected(text)[e]) ELSE em[e]]

\* decay_emotions(decay_rate), the rate in tenths
decay_emotions(em, rate) ==
  [e \in EmotionNames |-> (em[e] * (10 - rate)) \div 10]

\* the profile update adding or taking 0.05 without min() and max()
update_behavioral_profile_NoClamp(pers, em) ==
  LET p1 == IF em["vengeful"] > One \div 2
            THEN [pers EXCEPT !["agreeableness"] = @ - 5] ELSE pers
      p2 == IF em["playful"] > One \div 2
            THEN [p1 EXCEPT !["extraversion"] = @ + 5] ELSE p1
  IN IF 10 * em["jealous"] > 6 * One
     THEN [p2 EXCEPT !["neuroticism"] = @ + 5] ELSE p2

\* update_behavioral_profile ("vindictive" and "excited" are never set
\* above zero by update_mood_based_on_input)
update_behavioral_profile(pers, em) ==
  LET p1 == IF em["vengeful"] > One \div 2
            THEN [pers EXCEPT !["agreeableness"] = Max(0, @ - 5)] ELSE pers
      p2 == IF em["playful"] > One \div 2
            THEN [p1 EXCEPT !["extraversion"] = Min(100, @ + 5)] ELSE p1
  IN IF 10 * em["jealous"] > 6 * One
     THEN [p2 EXCEPT !["neuroticism"] = Min(100, @ + 5)] ELSE p2

\* reinforcement_learning_update; many says whether metrics["likes"] > 50
reinforcement_learning_update(pers, many) ==
  IF many THEN [pers EXCEPT !["extraversion"] = Min(100, @ + 5)]
  ELSE [pers EXCEPT !["extraversion"] = Max(0, @ - 5)]

MoodFrame ==
  UNCHANGED <<now, jobs, enabled, running, stop_event, threads, forbidden,
              last_ids, cmds, lastPost, lastComment, pcW, pcC, run_count,
              lastRun, lastSched, story>>

\* update_mood_based_on_input(text)
Ingest(text) ==
  /\ mood_ops < MaxMoodOps
  /\ mood_ops' = mood_ops + 1
  /\ emotions' = update_mood_based_on_input(emotions, text)
  /\ mood_state' = compute_overall_mood(emotions')
  /\ lastOp' = Op("ingest", text)
  /\ UNCHANGED personality
  /\ MoodFrame

\* decay_emotions(decay_rate): the mood label is not recomputed
Decay(rate) ==
  /\ mood_ops < MaxMoodOps
  /\ mood_ops' = mood_ops + 1
  /\ emotions' = decay_emotions(emotions, rate)
  /\ lastOp' = Op("decay", "none")
  /\ UNCHANGED <<mood_state, personality>>
  /\ MoodFrame

\* 'set mood <mood>'
SetMood(mood) ==
  /\ mood_ops < MaxMoodOps
  /\ mood_ops' = mood_ops + 1
  /\ mood_state' = mood
  /\ lastOp' = Op("set_mood", mood)
  /\ UNCHANGED <<emotions, personality>>
  /\ MoodFrame

\* update_behavioral_profile()
UpdateProfile ==
  /\ personality' = update_behavioral_profile(personality, emotions)
  /\ lastOp' = Op("update_profile", "none")
  /\ UNCHANGED <<emotions, mood_state, mood_ops>>
  /\ MoodFrame

\* reinforcement_learning_update()
Reinforce(many) ==
  /\ personality' = reinforcement_learning_update(personality, many)
  /\ lastOp' = Op("reinforce", IF many THEN "many" ELSE "few")
  /\ UNCHANGED <<emotions, mood_state, mood_ops>>
  /\ MoodFrame

\* the texts fed in, the decay rates in tenths (-1.0, 0.1, 2.0), and the
\* moods typed after 'set mood'
MoodTexts == {"lol", "i'm so jealous", "revenge", "hello"}

DecayRates == {-10, 1, 20}

MoodWords == {"happy", "sad", "neutral", "grumpy"}

MoodNext ==
  \/ \E text \in MoodTexts : Ingest(text)
  \/ \E rate \in DecayRates : Decay(rate)
  \/ \E mood \in MoodWords : SetMood(mood)

MoodSpec == Init /\ [][MoodNext]_vars

ProfileTexts == {"lol, revenge, i'm so jealous", "hello"}

ProfileNext ==
  \/ \E text \in ProfileTexts : Ingest(text)
  \/ UpdateProfile
  \/ \E many \in BOOLEAN : Reinforce(many)

ProfileSpec == Init /\ [][ProfileNext]_vars

----------------------------------------------------------------------------
(* StorySpec: the story jobs of two bots, each on its own tick thread,     *)
(* appending to the shared story file.  story.file is the sequence of the  *)
(* entries in state["story"]; an entry is the name of the bot that wrote   *)
(* it.                                                                     *)

StoryFrame ==
  UNCHANGED <<now, jobs, enabled, running, stop_event, threads, forbidden,
              last_ids, cmds, lastPost, lastComment, pcW, pcC, run_count,
              lastRun, lastSched, emotions, mood_state, personality,
              mood_ops>>

\* run_collaborative_storytelling up to the first statement of
\* update_shared_story_state: the tweet is posted, and
\* state = self.load_shared_story_state() reads the file
StoryLoad(b) ==
  /\ story.pc[b] = "idle"
  /\ story.posted[b] < MaxAppends
  /\ story' = [story EXCEPT !.pc[b] = "write",
                            !.state[b] = story.file,
                            !.posted[b] = @ + 1]
  /\ lastOp' = Op("story_load", b)
  /\ StoryFrame

\* state["story"] += "\n" + new_content; json.dump(state, f)
StoryWrite(b) ==
  /\ story.pc[b] = "write"
  /\ story' = [story EXCEPT !.pc[b] = "idle",
                            !.file = Append(story.state[b], b)]
  /\ lastOp' = Op("story_write", b)
  /\ StoryFrame

StoryNext == \E b \in Bots : StoryLoad(b) \/ StoryWrite(b)

StorySpec == Init /\ [][StoryNext]_vars

----------------------------------------------------------------------------
(* Properties of the registry and the tick loop, checked under Spec *)

\* C1: in every reachable state the registry holds at most one job for
\* each tag.
C1_AtMostOneJobPerTag ==
  \A tag \in Tags : CountTag(jobs, tag) <= 1

\* C2: whenever a behavior's enabled flag is false, the registry holds no
\* job tagged for that behavior.
C2_DisabledHasNoJob ==
  \A b \in Behaviors : ~enabled[b] => CountTag(jobs, Tag(b)) = 0

JobInvoked ==
  \E t \in ThreadIds :
    /\ threads[t].queue # << >>
    /\ threads'[t].queue = Tail(threads[t].queue)

\* C4: once stop() has returned (the stop event is set until the next
\* start()), no tick thread begins a job invocation.
C4_NoInvocationAfterStop ==
  [][JobInvoked => ~stop_event]_vars

\* C13: a run of the post job that leaves consecutive_forbidden_count
\* raised to 3 or more (three rejections as forbidden with no success in
\* between) leaves auto_post_enabled false, and the flag goes from false to
\* true only in a step of the 'start' or the 'start post' command.
C13_ForbiddenDisables ==
  [][/\ (forbidden' > forbidden /\ forbidden' >= 3) => ~enabled'["post"]
     /\ (~enabled["post"] /\ enabled'["post"])
          => lastOp'.op \in {"start", "start_behavior"}]_vars

\* the post job has just been rejected for the third time in a row and
\* the flag is off
C13_Witness ==
  /\ lastOp \in {Op("run", "post"), Op("wrapper", "post")}
  /\ forbidden = 3
  /\ ~enabled["post"]

\* C15: a start() on a bot that is already running (a second start() in a
\* row) adds no job, changes no flag, starts no thread and leaves the
\* running state and the stop event as they are.
C15_StartIdempotent ==
  [][(running /\ lastOp'.op = "start")
       => UNCHANGED <<jobs, enabled, running, stop_event, threads>>]_vars

\* start() has been called on a running bot with jobs in its registry
C15_Witness ==
  /\ lastOp = Op("start", "noop")
  /\ running
  /\ jobs # << >>

\* C16: when start() has just completed on a bot that was not running, the
\* registry holds exactly one job for each behavior whose enabled flag is
\* true and none for each behavior whose flag is false, whatever commands
\* came before.
C16_StartSchedulesEnabled ==
  lastOp = Op("start", "done") =>
    \A b \in Behaviors :
      CountTag(jobs, Tag(b)) = IF enabled[b] THEN 1 ELSE 0

\* C21: a step in which a tick thread fires a job whose behavior's flag is
\* false at that moment leaves consecutive_forbidden_count and the
\* watermarks as they are (the job has made no platform call).
C21_DisabledJobDoesNothing ==
  [][\A t \in ThreadIds :
       (/\ threads[t].queue # << >>
        /\ threads'[t].queue = Tail(threads[t].queue)
        /\ ~enabled[BehaviorOf(Head(threads[t].queue).tag)])
       => UNCHANGED <<forbidden, last_ids>>]_vars

\* C22: when a 'new random post|comment|reply' command has returned, the
\* registry holds exactly one job with the behavior's tag.
C22_NewRandomLeavesOne ==
  (lastOp.op = "new_random" /\ lastOp.b \in Randomized)
  => CountTag(jobs, Tag(lastOp.b)) = 1

\* an hour of one or two digits up to 23, a colon, a minute up to 59
ValidTimeOfDay(s) ==
  /\ MatchesTimePattern(s)
  /\ LET h == IF Len(s) = 5 THEN DigitVal(s[1]) * 10 + DigitVal(s[2])
                            ELSE DigitVal(s[1])
         m == DigitVal(s[Len(s) - 1]) * 10 + DigitVal(s[Len(s)])
     IN h <= 23 /\ m <= 59

\* C23: after a scheduling call of a randomized behavior, the call has not
\* raised, and the time handed to the scheduler is the category's default
\* or the configured entry, which then is a valid time of day.
C23_HandedTimeValidOrDefault ==
  lastSched.b # "none"
  => /\ ~lastSched.raised
     /\ \/ lastSched.handed = DefaultTime(lastSched.b)
        \/ /\ lastSched.handed = lastSched.entry
           /\ ValidTimeOfDay(lastSched.entry)

\* C25: a step in which a job invocation raises leaves the tick thread that
\* was running it alive.  Checked under CrashSpec.
C25_RaiseKeepsTickThread ==
  [][\A t \in ThreadIds :
       (/\ threads[t].alive /\ threads[t].queue # << >>
        /\ lastOp'.op = "raised"
        /\ threads'[t] # threads[t])
       => threads'[t].alive]_vars

\* C26: process_console_command is never waiting for a line of standard
\* input.  Checked under PromptSpec.
C26_NoCommandWaitsForInput ==
  pcC.pc \notin {"input", "input_message"}

\* C31: every run count is a positive integer.  Checked under RunSpec.
C31_RunCountsPositive ==
  \A b \in Runnable : run_count[b] >= 1

\* C35: a start() that brings up a bot that was not running leaves every
\* behavior's enabled flag as it was.
C35_StartKeepsFlags ==
  [][lastOp' = Op("start", "done") => enabled' = enabled]_vars

\* C36: when 'new random all' has returned, the registry holds exactly one
\* job for each behavior whose flag is true and none for each whose flag is
\* false.
C36_NewRandomAllOnePerEnabled ==
  lastOp = Op("new_random", "all")
  => \A b \in Behaviors :
       CountTag(jobs, Tag(b)) = IF enabled[b] THEN 1 ELSE 0

\* C6: at any moment at most one tick-loop thread is running for the bot.
C6_OneTickThread ==
  Cardinality(AliveThreads) <= 1

\* C17: when the bot is stopped (stop() has returned, or it was never
\* started) and no tick thread has a job of a run_pending() list left to
\* finish, the registry is empty.  Checked under LifecycleSpec, where no
\* command other than start and stop touches the registry.
C17_StoppedHasNoJobs ==
  (~running /\ \A t \in ThreadIds : threads[t].queue = << >>)
  => jobs = << >>

----------------------------------------------------------------------------
(* Property of the behavior commands, checked under ConsoleSpec *)

\* C18: a 'start <behavior>' command that finds the flag false leaves the
\* flag true and exactly one job with the behavior's tag in the registry;
\* one that finds the flag true changes neither the flags nor the registry.
C18_StartBehaviorSchedulesOne ==
  [][/\ \A b \in Behaviors :
          (lastOp' = Op("start_behavior", b) /\ cmds' = cmds + 1)
          => (enabled'[b] /\ CountTag(jobs', Tag(b)) = 1)
     /\ (lastOp' = Op("start_behavior", "noop") /\ cmds' = cmds + 1)
          => UNCHANGED <<jobs, enabled>>]_vars

----------------------------------------------------------------------------
(* Property of the behavior commands, checked under GuiSpec *)

\* C19: when a 'stop <behavior>' command has found the flag true, the flag
\* is false and the registry holds no job with the tag under which the
\* behavior's job is scheduled.
C19_StopBehaviorCancelsJob ==
  (lastOp.op = "stop_behavior" /\ lastOp.b \in Behaviors)
  => (~enabled[lastOp.b] /\ CountTag(jobs, Tag(lastOp.b)) = 0)

----------------------------------------------------------------------------
(* Property of the manual triggers, checked under RunSpec *)

\* C20: a 'run <behavior>' command has entered the behavior's job body as
\* many times as the run count says (no time for a count that is not
\* positive) when it returns, whether the behavior's flag was true or false.
C20_RunExecutesCountTimes ==
  lastRun.b # "none" =>
    lastRun.executed = IF lastRun.count > 0 THEN lastRun.count ELSE 0

\* a 'run' of a disabled behavior with a count above one
C20_Witness ==
  /\ lastRun.b # "none"
  /\ ~lastRun.flag
  /\ lastRun.count > 1
  /\ lastRun.executed = lastRun.count

\* C37: one scheduled firing of a wrapper has entered the behavior's job
\* body exactly once when it returns, whatever the run count.  Checked
\* under FiringSpec.
C37_FiringRunsBodyOnce ==
  lastOp.op \in {"wrapper", "wrapper_botsy"} => lastRun.executed = 1

----------------------------------------------------------------------------
(* Property of the unsynchronised threads, checked under RaceSpec *)

\* C5: once a 'stop <behavior>' command that found the flag set and every
\* job wrapper have finished, the flag is false and the registry holds no
\* job with the behavior's tag, whichever way their statements interleaved.
C5_StopWins ==
  (/\ pcC.cmd = "stop" /\ pcC.pc = "done"
   /\ \A t \in ThreadIds : pcW[t] = "idle")
  => (~enabled[pcC.b] /\ CountTag(jobs, Tag(pcC.b)) = 0)

\* C32: once a 'new random <behavior>' command and every job wrapper have
\* finished, with the behavior enabled, the registry holds exactly one job
\* with the behavior's tag, whichever way their statements interleaved.
\* Checked under ReplaceSpec.
C32_ReplacementAtomic ==
  (/\ pcC.cmd = "new_random" /\ pcC.pc = "done"
   /\ \A t \in ThreadIds : pcW[t] = "idle"
   /\ enabled[pcC.b])
  => CountTag(jobs, Tag(pcC.b)) = 1

----------------------------------------------------------------------------
(* Properties of the comment job, checked under CommentSpec *)

C8_FailureKeepsWatermark ==
  \A h \in HandleSet :
    lastComment[h].kind # "none" =>
      IF lastComment[h].kind = "published"
      THEN last_ids[h] = << lastComment[h].id >>
      ELSE last_ids[h] = lastComment[h].before

\* a run in which the publish call failed, or no reply was generated, for a
\* tweet newer than the watermark the handle already had
C8_Witness ==
  \E h, g \in HandleSet :
    /\ lastComment[h].kind = "pubfail"
    /\ lastComment[g].kind = "nogen"
    /\ lastComment[h].before # NoWatermark
    /\ lastComment[h].id > lastComment[h].before[1]

\* C9: the job makes no create_tweet call for a tweet whose id is less than
\* or equal to the handle's watermark; when the newest tweet's id equals the
\* watermark the handle is skipped and the watermark stays.
C9_NoReplyAtOrBelowWatermark ==
  \A h \in HandleSet :
    (/\ lastComment[h].before # NoWatermark
     /\ lastComment[h].id >= 1
     /\ lastComment[h].id <= lastComment[h].before[1])
    => (~PublishCalled(lastComment[h]) /\ last_ids[h] = lastComment[h].before)

\* a run that met a newest tweet whose id equals the watermark
C9_Witness ==
  \E h \in HandleSet :
    /\ lastComment[h].kind = "not_newer"
    /\ lastComment[h].before = << lastComment[h].id >>

\* C14: when the wrapper has fired the comment job and create_tweet has
\* now failed for the same handle in 3 firings in a row, the comment behavior
\* is disabled and the registry holds no randomized_comment job.
C14_CommentAutoDisable ==
  (/\ lastOp = Op("wrapper", "comment")
   /\ \E h \in HandleSet : lastComment[h].fails >= 3)
  => (~enabled["comment"] /\ CountTag(jobs, Tag("comment")) = 0)

\* C38: a comment-job iteration that reached the guard with a watermark
\* stored was skipped as not newer exactly when the tweet's id is
\* numerically smaller than or equal to the watermark.  Checked under IdSpec.
C38_GuardComparesNumerically ==
  \A h \in HandleSet :
    (/\ lastComment[h].kind \in {"not_newer", "noprompt", "nogen", "pubfail",
                                 "published"}
     /\ lastComment[h].before # NoWatermark)
    => (lastComment[h].kind = "not_newer"
          <=> lastComment[h].id <= lastComment[h].before[1])

----------------------------------------------------------------------------
(* Property of the post job, checked under PostSpec *)

\* C10: when text is generated and every create_tweet call fails with a
\* generic error, one run of the post job makes exactly MAX_AUTH_RETRIES
\* publish attempts and then reports failure.
C10_ExactlyMaxRetries ==
  (lastPost.variant # "none" /\ lastPost.kinds = {"generic"})
  => (lastPost.attempts = MAX_AUTH_RETRIES /\ lastPost.reported)

\* the calls of post_tweet, by position in the run, that made a publish
\* attempt (a text had been generated)
PublishAttempts(run) ==
  {i \in 1..Len(run.trail) : run.trail[i] # "nogen"}

\* C11: when a publish attempt of the post job fails with a rate-limit
\* error, the same run makes no further publish attempt and does not sleep
\* before it returns.
C11_RateLimitEndsRun ==
  \A i \in 1..Len(lastPost.trail) :
    lastPost.trail[i] = "ratelimit" =>
      /\ \A j \in PublishAttempts(lastPost) : j <= i
      /\ lastPost.waits[i] = 0

\* C12: when a publish attempt of the post job fails as Unauthorized, the
\* token file is removed exactly once and the same run makes no further
\* publish attempt.
C12_UnauthorizedInvalidatesOnce ==
  \A i \in 1..Len(lastPost.trail) :
    lastPost.trail[i] = "unauthorized" =>
      /\ lastPost.removals = 1
      /\ \A j \in PublishAttempts(lastPost) : j <= i

\* C24: when every generate_tweet call of a fired post job has returned an
\* empty text, the job has made no publish attempt, and when the wrapper has
\* returned with auto-posting enabled the registry holds exactly one
\* randomized_tweet job, due later than now.
C24_EmptyGenerationSkipsAndReschedules ==
  (lastOp = Op("wrapper", "post") /\ lastPost.kinds = {"nogen"})
  => /\ lastPost.attempts = 0
     /\ ~lastPost.success
     /\ enabled["post"] =>
          /\ CountTag(jobs, Tag("post")) = 1
          /\ \A i \in 1..Len(jobs) :
               jobs[i].tag = Tag("post") => jobs[i].next_run > now

C24_Witness ==
  /\ lastOp = Op("wrapper", "post")
  /\ lastPost.kinds = {"nogen"}
  /\ Len(lastPost.trail) = MAX_AUTH_RETRIES
  /\ enabled["post"]
  /\ CountTag(jobs, Tag("post")) = 1

\* the number of post_tweet calls among the first i of a run that were
\* rejected as forbidden
ForbiddenUpTo(trail, i) ==
  Cardinality({j \in 1..i : trail[j] = "forbidden"})

\* the call of a run at which handle_forbidden_error clears the flag, for a
\* run entered with consecutive_forbidden_count = c that clears it
DisabledAt(c, trail) ==
  CHOOSE i \in 1..Len(trail) :
    /\ trail[i] = "forbidden"
    /\ c + ForbiddenUpTo(trail, i) >= 3
    /\ \A k \in 1..(i - 1) :
         ~(trail[k] = "forbidden" /\ c + ForbiddenUpTo(trail, k) >= 3)

\* C33: in a firing of the post job that switches auto-posting off, the
\* three most recent post_tweet calls up to the one that switched it off,
\* counted over the previous firing and this one, were all rejected as
\* forbidden.  Checked under PostWrapperSpec.
C33_DisabledOnlyAfterThreeInARow ==
  [][(enabled["post"] /\ ~enabled'["post"])
     => LET i == DisabledAt(forbidden, lastPost'.trail)
            h == lastPost.trail \o SubSeq(lastPost'.trail, 1, i)
        IN /\ Len(h) >= 3
           /\ \A k \in (Len(h) - 2)..Len(h) : h[k] = "forbidden"]_vars

\* C34: the first firing of the post job after a 'start post' command that
\* re-enabled auto-posting leaves auto-posting enabled when fewer than
\* three of its post_tweet calls were rejected as forbidden.  Checked under
\* ReenableSpec, where only handle_forbidden_error clears the flag.
C34_ReenableRestartsCount ==
  [][(/\ lastOp = Op("start_behavior", "post")
      /\ lastOp' = Op("wrapper", "post")
      /\ ForbiddenUpTo(lastPost'.trail, Len(lastPost'.trail)) < 3)
     => enabled'["post"]]_vars

----------------------------------------------------------------------------
(* Property of the shared story, checked under StorySpec *)

\* the entries of the shared story written by bot b
EntriesOf(b) ==
  Cardinality({i \in 1..Len(story.file) : story.file[i] = b})

\* C39: when no bot is inside its story job, the shared story holds one
\* entry of each bot for every story tweet the bot has posted.
C39_NoAppendLost ==
  (\A b \in Bots : story.pc[b] = "idle")
  => \A b \in Bots : EntriesOf(b) = story.posted[b]

----------------------------------------------------------------------------
(* Properties of the emotional state, checked under MoodSpec and           *)
(* ProfileSpec                                                             *)

\* C27: every emotion value lies between 0.0 and 1.0.
C27_EmotionsInUnitInterval ==
  \A e \in EmotionNames : emotions[e] >= 0 /\ emotions[e] <= One

\* C28: a step that ingests "I'm so jealous" into the all-zero emotion
\* state sets jealous to 0.27, leaves every other emotion at zero and
\* leaves the mood label as it was.
C28_JealousFromZero ==
  [][(emotions = InitialEmotions /\ lastOp' = Op("ingest", "i'm so jealous"))
     => /\ emotions'["jealous"] = (27 * One) \div 100
        /\ \A e \in EmotionNames \ {"jealous"} : emotions'[e] = 0
        /\ mood_state' = mood_state]_vars

\* C29: the mood label is the value of compute_overall_mood on the current
\* emotions, hence one of happy, sad, neutral.
C29_MoodIsFunctionOfEmotions ==
  /\ mood_state = compute_overall_mood(emotions)
  /\ mood_state \in {"happy", "sad", "neutral"}

\* C40: after an ingest call, the mood label can differ from the one the
\* initial emotions give: at least one of the emotions compute_overall_mood
\* reads is among those the call has written.
C40_IngestWritesWhatMoodReads ==
  lastOp.op = "ingest" => \E e \in MoodInputs : e \in EmotionList

\* C30: every personality value lies between 0 and 1, and no step changes
\* one by more than 0.05.  Checked under ProfileSpec.
C30_PersonalityBoundedSteps ==
  [][\A p \in Traits :
       /\ personality'[p] >= 0 /\ personality'[p] <= 100
       /\ personality'[p] - personality[p] <= 5
       /\ personality[p] - personality'[p] <= 5]_vars

C30_Witness ==
  /\ lastOp.op = "update_profile"
  /\ personality["agreeableness"] = 0
  /\ personality["extraversion"] = 100
  /\ personality["neuroticism"] = 100

====
